---- MODULE Spec2Model ----
(***************************************************************************)
(* Model of the two query executors of prism's Python backend:            *)
(*   lib/python/dp_executor.py  - Laplace-mechanism executor (DPExecutor) *)
(*   lib/python/he_executor.py  - BFV encrypted-aggregation executor      *)
(*   lib/python/he_context.py   - the TenSEAL context it encrypts under   *)
(* One run of the model is one process invocation: main reads its         *)
(* argument, executes the query, prints envelopes and exits.              *)
(*                                                                         *)
(* Numbers (Python int and float) are exact rationals [n, d] in lowest    *)
(* terms with d > 0.  execution_time_ms (a wall-clock reading) is left    *)
(* out of the envelopes.                                                   *)
(***************************************************************************)
EXTENDS Integers, Sequences, FiniteSets, TLC

VARIABLES pc, inv, printed, exit

vars == <<pc, inv, printed, exit>>

-----------------------------------------------------------------------------
(* Bounds of the model *)

\* longest dataset (number of rows) an invocation is given
MaxRows == 3
\* largest magnitude of -ln(1 - 2|u|) a noise draw takes
MaxL == 3

-----------------------------------------------------------------------------
(* Rational arithmetic *)

Abs(x) == IF x < 0 THEN -x ELSE x

RECURSIVE GCD(_, _)
GCD(a, b) == IF b = 0 THEN a ELSE GCD(b, a % b)

Rat(n, d) ==
    LET g == GCD(Abs(n), Abs(d))
        s == IF d < 0 THEN -1 ELSE 1
    IN  [n |-> (s * n) \div g, d |-> (s * d) \div g]

R(k) == [n |-> k, d |-> 1]

RAdd(a, b) == Rat(a.n * b.d + b.n * a.d, a.d * b.d)
RSub(a, b) == Rat(a.n * b.d - b.n * a.d, a.d * b.d)
RMul(a, b) == Rat(a.n * b.n, a.d * b.d)
RQuot(a, b) == Rat(a.n * b.d, a.d * b.n)
RNeg(a) == [n |-> -a.n, d |-> a.d]
RLt(a, b) == a.n * b.d < b.n * a.d
RLe(a, b) == a.n * b.d <= b.n * a.d
IsZero(a) == a.n = 0
IsInteger(a) == a.d = 1

Floor(a) == a.n \div a.d

\* Python round(x): to the nearest integer, ties to the even one
RoundHalfEven(a) ==
    LET q == Floor(a)
        rem == a.n - q * a.d
    IN  IF 2 * rem < a.d THEN q
        ELSE IF 2 * rem > a.d THEN q + 1
        ELSE IF q % 2 = 0 THEN q ELSE q + 1

Pow10(k) == IF k = 2 THEN 100 ELSE IF k = 3 THEN 1000 ELSE 1

\* Python round(x, k): to k decimal digits
Round(a, k) ==
    LET q == Floor(a)
        f == Rat(a.n - q * a.d, a.d)
        s == RoundHalfEven(Rat(f.n * Pow10(k), f.d))
    IN  RAdd(R(q), Rat(s, Pow10(k)))

\* Python max(a, b) and min(a, b): the first argument wins ties
PyMax(a, b) == IF RLt(a, b) THEN b ELSE a
PyMin(a, b) == IF RLt(b, a) THEN b ELSE a

RECURSIVE RSum(_)
RSum(s) == IF s = <<>> THEN R(0) ELSE RAdd(Head(s), RSum(Tail(s)))

RECURSIVE SeqMin(_)
SeqMin(s) == IF Len(s) = 1 THEN s[1] ELSE PyMin(s[1], SeqMin(Tail(s)))

RECURSIVE SeqMax(_)
SeqMax(s) == IF Len(s) = 1 THEN s[1] ELSE PyMax(s[1], SeqMax(Tail(s)))

\* [f(x) for x in s]
SeqMap(Op(_), s) == [i \in 1..Len(s) |-> Op(s[i])]

-----------------------------------------------------------------------------
(* Values of a dataset cell, and the outcome of a call *)

None == [t |-> "null"]
Num(r) == [t |-> "num", v |-> r]

\* isinstance(x, (int, float))
IsNumeric(c) == c.t = "num"

\* a call either returns a value or raises the named exception
Return(v) == [exc |-> "", val |-> <<v>>]
Raise(e) == [exc |-> e, val |-> <<>>]
Raised(r) == r.exc # ""
Val(r) == r.val[1]

-----------------------------------------------------------------------------
(* dp_executor.py : DPExecutor *)

\* A query "SELECT kw(arg) FROM t [WHERE col = val]" is held as its parts:
\* kw the aggregate keyword in lower case ("" for the empty query text),
\* arg the text between the parentheses, where the list of conditions.

\* DPExecutor._sample_laplace.  A draw u = random.random() - 0.5 lies in
\* [-0.5, 0.5); it is held as its sign and m = -ln(1 - 2|u|) >= 0.  At the
\* boundary u = -0.5 the argument of math.log is 0 and math.log raises.
SampleLaplace(loc, scale, u) ==
    IF u.boundary THEN Raise("ValueError: math domain error")
    ELSE Return(RSub(loc, RMul(RMul(scale, R(u.sgn)), RNeg(u.m))))

\* DPExecutor._extract_column: the text between the parentheses that follow
\* the operation; None ("") when the operation is not in the query.
ExtractColumn(query, operation) ==
    IF query.kw # operation THEN "" ELSE query.arg

InColumns(columns, column) == \E i \in 1..Len(columns) : columns[i] = column

\* list.index: the first position holding the name
ColumnIndex(columns, column) ==
    CHOOSE i \in 1..Len(columns) :
        columns[i] = column /\ \A j \in 1..(i - 1) : columns[j] # column

\* row[col_idx] raises IndexError on a row too short
ShortRow(data, idx) == \E i \in 1..Len(data) : Len(data[i]) < idx

\* [row[col_idx] for row in self.data if isinstance(row[col_idx], (int, float))]
NumericValues(data, idx) ==
    LET Cell(row) == row[idx]
        Value(c) == c.v
    IN  SeqMap(Value, SelectSeq(SeqMap(Cell, data), IsNumeric))

ColumnNotFound == [success |-> FALSE, error |-> "Column not found"]

NoNumericValues == [success |-> FALSE, error |-> "No numeric values found"]

\* ClampCount without the floor at 0: the faulty variant C1 must reject
ClampCountNoFloor(true_count, noise) == RAdd(true_count, noise)

\* max(0, true_count + noise)
ClampCount(true_count, noise) == PyMax(R(0), RAdd(true_count, noise))

\* int(round(noisy_count))
ReportedCount(noisy_count) == R(RoundHalfEven(noisy_count))

\* true_count = len(self.data)
TrueCount(self, query) == R(Len(self.data))

\* DPExecutor._execute_count
ExecuteCount(self, query, bounds, u) ==
    LET true_count == TrueCount(self, query)
        sensitivity == R(1)
    IN  IF IsZero(self.epsilon) THEN Raise("ZeroDivisionError") ELSE
        LET noise_scale == RQuot(sensitivity, self.epsilon)
            sample == SampleLaplace(R(0), noise_scale, u)
        IN  IF Raised(sample) THEN sample ELSE
            LET noise == Val(sample)
                noisy_count == ClampCount(true_count, noise)
            IN  Return([success |-> TRUE,
                        result |-> [count |-> ReportedCount(noisy_count)],
                        epsilon_consumed |-> self.epsilon,
                        delta |-> self.delta,
                        mechanism |-> "laplace",
                        noise_scale |-> Round(noise_scale, 3),
                        metadata |-> [operation |-> "count",
                                      sensitivity |-> sensitivity,
                                      true_count |-> true_count,
                                      noise_added |-> Round(noise, 2),
                                      fallback |-> FALSE]])

\* lower_bound, upper_bound = bounds[column]: unpacking a list whose length
\* is not 2 raises ValueError
BadPair(bounds, column) == column \in DOMAIN bounds /\ Len(bounds[column]) # 2

\* SumBounds with another default pair: the faulty variant C7 must reject
SumBoundsOtherDefault(self, bounds, column, idx) ==
    IF column \in DOMAIN bounds THEN bounds[column]
    ELSE LET values == NumericValues(self.data, idx)
         IN  IF values # <<>> THEN <<SeqMin(values), SeqMax(values)>>
             ELSE <<R(0), R(1)>>

\* Bounds of SUM and AVG: the caller's pair, else inferred from the data,
\* (0, 100) when the column has no numeric value
SumBounds(self, bounds, column, idx) ==
    IF column \in DOMAIN bounds THEN bounds[column]
    ELSE LET values == NumericValues(self.data, idx)
         IN  IF values # <<>> THEN <<SeqMin(values), SeqMax(values)>>
             ELSE <<R(0), R(100)>>

\* max(lower_bound, min(upper_bound, row[col_idx])) over the numeric cells
ClampedValues(data, idx, lower_bound, upper_bound) ==
    LET Clamp(v) == PyMax(lower_bound, PyMin(upper_bound, v))
    IN  SeqMap(Clamp, NumericValues(data, idx))

\* sensitivity = upper_bound - lower_bound
Sensitivity(lower_bound, upper_bound) == RSub(upper_bound, lower_bound)

\* DPExecutor._execute_sum
ExecuteSum(self, query, bounds, u) ==
    LET column == ExtractColumn(query, "sum") IN
    IF column = "" \/ ~InColumns(self.columns, column) THEN Return(ColumnNotFound) ELSE
    LET col_idx == ColumnIndex(self.columns, column) IN
    IF BadPair(bounds, column) THEN Raise("ValueError: unpack") ELSE
    IF ShortRow(self.data, col_idx) THEN Raise("IndexError") ELSE
    LET b == SumBounds(self, bounds, column, col_idx)
        lower_bound == b[1]
        upper_bound == b[2]
        clamped_values == ClampedValues(self.data, col_idx, lower_bound, upper_bound)
        true_sum == RSum(clamped_values)
        sensitivity == Sensitivity(lower_bound, upper_bound)
    IN  IF IsZero(self.epsilon) THEN Raise("ZeroDivisionError") ELSE
        LET noise_scale == RQuot(sensitivity, self.epsilon)
            sample == SampleLaplace(R(0), noise_scale, u)
        IN  IF Raised(sample) THEN sample ELSE
            LET noise == Val(sample)
                noisy_sum == RAdd(true_sum, noise)
            IN  Return([success |-> TRUE,
                        result |-> [sum |-> Round(noisy_sum, 2)],
                        epsilon_consumed |-> self.epsilon,
                        delta |-> self.delta,
                        mechanism |-> "laplace",
                        noise_scale |-> Round(noise_scale, 3),
                        metadata |-> [operation |-> "sum",
                                      column |-> column,
                                      sensitivity |-> Round(sensitivity, 2),
                                      bounds |-> <<lower_bound, upper_bound>>,
                                      true_sum |-> Round(true_sum, 2),
                                      noise_added |-> Round(noise, 2),
                                      clamped_values |-> R(Len(clamped_values)),
                                      fallback |-> FALSE]])

\* epsilon_sum = epsilon_count = self.epsilon / 2
EpsilonSplit(epsilon) == RQuot(epsilon, R(2))

\* AvgConsumed reporting one half of the split: the faulty variant C2 must reject
AvgConsumedHalf(self) == EpsilonSplit(self.epsilon)

\* "epsilon_consumed": self.epsilon, in the AVG envelope
AvgConsumed(self) == self.epsilon

\* DPExecutor._execute_avg
ExecuteAvg(self, query, bounds, u1, u2) ==
    LET column == ExtractColumn(query, "avg") IN
    IF column = "" \/ ~InColumns(self.columns, column) THEN Return(ColumnNotFound) ELSE
    LET col_idx == ColumnIndex(self.columns, column) IN
    IF BadPair(bounds, column) THEN Raise("ValueError: unpack") ELSE
    IF ShortRow(self.data, col_idx) THEN Raise("IndexError") ELSE
    LET b == SumBounds(self, bounds, column, col_idx)
        lower_bound == b[1]
        upper_bound == b[2]
        clamped_values == ClampedValues(self.data, col_idx, lower_bound, upper_bound)
        count == R(Len(clamped_values))
        true_sum == RSum(clamped_values)
        true_avg == IF RLt(R(0), count) THEN RQuot(true_sum, count) ELSE R(0)
        epsilon_sum == EpsilonSplit(self.epsilon)
        epsilon_count == EpsilonSplit(self.epsilon)
        sensitivity_sum == Sensitivity(lower_bound, upper_bound)
        sensitivity_count == R(1)
    IN  IF IsZero(epsilon_sum) THEN Raise("ZeroDivisionError") ELSE
        LET noise_scale_sum == RQuot(sensitivity_sum, epsilon_sum)
            sample_sum == SampleLaplace(R(0), noise_scale_sum, u1)
        IN  IF Raised(sample_sum) THEN sample_sum ELSE
        IF IsZero(epsilon_count) THEN Raise("ZeroDivisionError") ELSE
        LET noisy_sum == RAdd(true_sum, Val(sample_sum))
            noise_scale_count == RQuot(sensitivity_count, epsilon_count)
            sample_count == SampleLaplace(R(0), noise_scale_count, u2)
        IN  IF Raised(sample_count) THEN sample_count ELSE
            LET noisy_count == PyMax(R(1), RAdd(count, Val(sample_count)))
                noisy_avg == RQuot(noisy_sum, noisy_count)
            IN  Return([success |-> TRUE,
                        result |-> [average |-> Round(noisy_avg, 2)],
                        epsilon_consumed |-> AvgConsumed(self),
                        delta |-> self.delta,
                        mechanism |-> "laplace",
                        noise_scale |-> Round(noise_scale_sum, 3),
                        metadata |-> [operation |-> "avg",
                                      column |-> column,
                                      sensitivity_sum |-> Round(sensitivity_sum, 2),
                                      sensitivity_count |-> sensitivity_count,
                                      bounds |-> <<lower_bound, upper_bound>>,
                                      true_avg |-> Round(true_avg, 2),
                                      true_sum |-> Round(true_sum, 2),
                                      true_count |-> count,
                                      noisy_sum |-> Round(noisy_sum, 2),
                                      noisy_count |-> Round(noisy_count, 2),
                                      epsilon_split |-> [sum |-> epsilon_sum,
                                                         count |-> epsilon_count],
                                      fallback |-> FALSE]])

\* Bounds of MIN and MAX: the caller's pair, else (min, max) of the values
ExtremeBounds(bounds, column, values) ==
    IF column \in DOMAIN bounds THEN bounds[column]
    ELSE <<SeqMin(values), SeqMax(values)>>

\* DPExecutor._execute_min (kind = "min") and DPExecutor._execute_max
\* (kind = "max"), which differ in the statistic and in the names of the
\* result and true_min / true_max fields only
ExecuteExtreme(kind, self, query, bounds, u) ==
    LET column == ExtractColumn(query, kind) IN
    IF column = "" \/ ~InColumns(self.columns, column) THEN Return(ColumnNotFound) ELSE
    LET col_idx == ColumnIndex(self.columns, column) IN
    IF ShortRow(self.data, col_idx) THEN Raise("IndexError") ELSE
    LET values == NumericValues(self.data, col_idx) IN
    IF values = <<>> THEN Return(NoNumericValues) ELSE
    IF BadPair(bounds, column) THEN Raise("ValueError: unpack") ELSE
    LET true_value == IF kind = "min" THEN SeqMin(values) ELSE SeqMax(values)
        b == ExtremeBounds(bounds, column, values)
        lower_bound == b[1]
        upper_bound == b[2]
        sensitivity == Sensitivity(lower_bound, upper_bound)
    IN  IF IsZero(self.epsilon) THEN Raise("ZeroDivisionError") ELSE
        LET noise_scale == RQuot(sensitivity, self.epsilon)
            sample == SampleLaplace(R(0), noise_scale, u)
        IN  IF Raised(sample) THEN sample ELSE
            LET noise == Val(sample)
                noisy == RAdd(true_value, noise)
            IN  Return([success |-> TRUE,
                        result |-> (kind :> Round(noisy, 2)),
                        epsilon_consumed |-> self.epsilon,
                        delta |-> self.delta,
                        mechanism |-> "laplace",
                        noise_scale |-> Round(noise_scale, 3),
                        metadata |-> [operation |-> kind,
                                      column |-> column,
                                      sensitivity |-> Round(sensitivity, 2),
                                      bounds |-> <<lower_bound, upper_bound>>,
                                      noise_added |-> Round(noise, 2),
                                      fallback |-> FALSE]
                                     @@ (("true_" \o kind) :> Round(true_value, 2))])

ExecuteMin(self, query, bounds, u) == ExecuteExtreme("min", self, query, bounds, u)

ExecuteMax(self, query, bounds, u) == ExecuteExtreme("max", self, query, bounds, u)

UnsupportedOperation == [success |-> FALSE, error |-> "Unsupported query operation"]

\* DPExecutor.execute_query: dispatch on the aggregate keyword
ExecuteQuery(self, query, bounds, u1, u2) ==
    IF query.kw = "count" THEN ExecuteCount(self, query, bounds, u1)
    ELSE IF query.kw = "sum" THEN ExecuteSum(self, query, bounds, u1)
    ELSE IF query.kw = "avg" THEN ExecuteAvg(self, query, bounds, u1, u2)
    ELSE IF query.kw = "min" THEN ExecuteMin(self, query, bounds, u1)
    ELSE IF query.kw = "max" THEN ExecuteMax(self, query, bounds, u1)
    ELSE Return(UnsupportedOperation)

\* Caught as a bare except, which also catches SystemExit: the faulty variant
\* C10 must reject
CaughtAlsoExit(exc) == exc # ""

\* except Exception as e: SystemExit is no Exception and passes through
Caught(exc) == exc # "" /\ exc # "SystemExit"

Failure(msg) == [success |-> FALSE, error |-> msg]

\* result = executor.execute_query(query, bounds); print(json.dumps(result))
DPPrintResult(result) ==
    IF Raised(result) THEN [printed |-> <<>>, exc |-> result.exc, status |-> 0]
    ELSE [printed |-> <<Val(result)>>, exc |-> "", status |-> 0]

\* The try block of main: what it printed, the exception that left it ("" when
\* it ran to its end) and the status of a sys.exit
DPTry(i, u1, u2) ==
    IF i.arg = "missing" THEN
        [printed |-> <<Failure("No input data provided")>>, exc |-> "SystemExit", status |-> 1]
    ELSE IF i.arg = "malformed" THEN
        [printed |-> <<>>, exc |-> "JSONDecodeError", status |-> 0]
    ELSE IF i.query.kw = "" THEN
        [printed |-> <<Failure("No query provided")>>, exc |-> "SystemExit", status |-> 1]
    ELSE IF i.data = <<>> THEN
        [printed |-> <<Failure("No data provided")>>, exc |-> "SystemExit", status |-> 1]
    ELSE
        DPPrintResult(ExecuteQuery([data |-> i.data, columns |-> i.columns,
                                    epsilon |-> i.epsilon, delta |-> i.delta],
                                   i.query, i.bounds, u1, u2))

\* The handler of main: an exception it catches is printed as a failure
\* envelope and the process exits with status 1
DPHandler(t) ==
    IF Caught(t.exc) THEN
        [printed |-> Append(t.printed, Failure("Execution failed: " \o t.exc)),
         status |-> 1]
    ELSE [printed |-> t.printed, status |-> t.status]

\* dp_executor.main
DPRun(i, u1, u2) == DPHandler(DPTry(i, u1, u2))

-----------------------------------------------------------------------------
(* he_context.py and he_executor.py *)

\* plain_modulus of the BFV context
PlainModulus == 1032193

\* HeContext.encrypt_vector: ts.bfv_vector refuses an empty vector
EncryptVector(data) ==
    IF data = <<>> THEN Raise("ValueError: empty vector") ELSE Return(data)

RECURSIVE IntSum(_)
IntSum(s) == IF s = <<>> THEN 0 ELSE Head(s) + IntSum(Tail(s))

\* encrypted_vector.sum() then HeContext.decrypt_vector: BFV adds modulo the
\* plain modulus and decodes to the representative nearest 0
Centered(x) ==
    LET half == (PlainModulus - 1) \div 2
    IN  ((x + half) % PlainModulus) - half

DecryptedSum(vec) == Centered(IntSum(vec))

\* str.lower() on the names the model uses
Lower(name) == IF name = "Age" THEN "age" ELSE name

\* parse_query: the aggregate among COUNT, SUM, AVG and the lower-cased
\* column, None ("") for COUNT(*) and for an empty argument
ParseQuery(query) ==
    IF query.kw \notin {"count", "sum", "avg"} THEN Raise("ValueError: Unsupported query")
    ELSE LET column == IF query.kw = "count" /\ query.arg = "*" THEN ""
                       ELSE Lower(query.arg)
         IN  Return([operation |-> query.kw, column |-> column])

\* HeQueryExecutor.__init__: pd.DataFrame(data, columns=columns) pads short
\* rows with missing values up to the longest row, and refuses data whose
\* width is not the number of columns
Frame(data, columns) ==
    LET Width == IF data = <<>> THEN Len(columns)
                 ELSE CHOOSE w \in {Len(data[i]) : i \in 1..Len(data)} :
                          \A i \in 1..Len(data) : Len(data[i]) <= w
        Pad(row) == [j \in 1..Width |-> IF j <= Len(row) THEN row[j] ELSE None]
    IN  IF Width # Len(columns) THEN Raise("ValueError: columns passed")
        ELSE Return(SeqMap(Pad, data))

\* self.df[column]
FrameColumn(df, columns, column) ==
    LET idx == ColumnIndex(columns, column)
        Cell(row) == row[idx]
    IN  SeqMap(Cell, df)

\* HeQueryExecutor.execute_count
HEExecuteCount(df, columns, column) ==
    IF column # "" /\ ~InColumns(columns, column) THEN Raise("KeyError") ELSE
    LET One(c) == 1
        Present(c) == IF IsNumeric(c) THEN 1 ELSE 0
        count_vector == IF column # "" THEN SeqMap(Present, FrameColumn(df, columns, column))
                        ELSE SeqMap(One, df)
        encrypted_vector == EncryptVector(count_vector)
    IN  IF Raised(encrypted_vector) THEN encrypted_vector ELSE
        Return([success |-> TRUE,
                result |-> [count |-> R(DecryptedSum(Val(encrypted_vector)))],
                metadata |-> [operation |-> "count",
                              encryption_scheme |-> "BFV",
                              poly_modulus_degree |-> R(8192),
                              records_encrypted |-> R(Len(count_vector))]])

\* .astype(int): truncation toward zero
AsTypeInt(r) == IF r.n >= 0 THEN r.n \div r.d ELSE -((-r.n) \div r.d)

\* self.df[column].dropna().astype(int).tolist()
ColumnData(df, columns, column) ==
    LET Value(c) == AsTypeInt(c.v)
    IN  SeqMap(Value, SelectSeq(FrameColumn(df, columns, column), IsNumeric))

\* HeQueryExecutor.execute_sum; bounds is None (<<>>) or the caller's list
HEExecuteSum(df, columns, column, bounds) ==
    IF ~InColumns(columns, column) THEN Raise("KeyError") ELSE
    LET column_data == ColumnData(df, columns, column) IN
    IF column_data = <<>> THEN Return([success |-> TRUE, result |-> [sum |-> R(0)]]) ELSE
    IF bounds # <<>> /\ Len(bounds) # 2 THEN Raise("ValueError: unpack") ELSE
    LET Clip(val) == IF bounds = <<>> THEN val
                     ELSE PyMax(bounds[1], PyMin(bounds[2], R(val))).n
        clipped == SeqMap(Clip, column_data)
        encrypted_vector == EncryptVector(clipped)
    IN  IF Raised(encrypted_vector) THEN encrypted_vector ELSE
        Return([success |-> TRUE,
                result |-> [sum |-> R(DecryptedSum(Val(encrypted_vector)))],
                metadata |-> [operation |-> "sum",
                              encryption_scheme |-> "BFV",
                              poly_modulus_degree |-> R(8192),
                              records_encrypted |-> R(Len(clipped)),
                              bounds_applied |-> bounds # <<>>]])

\* he_executor.main: the dispatch on the parsed operation
HEDispatch(i, parsed, df) ==
    IF parsed.operation = "count" THEN HEExecuteCount(df, i.columns, parsed.column)
    ELSE IF parsed.operation = "sum" THEN
        HEExecuteSum(df, i.columns, parsed.column,
                     IF parsed.column # "" /\ parsed.column \in DOMAIN i.bounds
                     THEN i.bounds[parsed.column] ELSE <<>>)
    ELSE Return(Failure("AVG not yet supported in HE backend"))

HEWithFrame(i, parsed, df) ==
    IF Raised(df) THEN df ELSE HEDispatch(i, parsed, Val(df))

HEWithParsed(i, parsed) ==
    IF Raised(parsed) THEN parsed
    ELSE HEWithFrame(i, Val(parsed), Frame(i.data, i.columns))

\* he_executor.main, from json.loads to the operation's result
HEResult(i) ==
    IF i.arg = "malformed" THEN Raise("JSONDecodeError")
    ELSE HEWithParsed(i, ParseQuery(i.query))

\* the HE-specific fields main adds to a successful result
WithHEFields(result) ==
    IF result.success
    THEN result @@ [mechanism |-> "homomorphic_encryption",
                    epsilon_consumed |-> R(0), delta |-> R(0), noise_scale |-> R(0)]
    ELSE result

\* print(json.dumps(result)); sys.exit(0)
HEPrintResult(r) ==
    IF Raised(r) THEN [printed |-> <<>>, exc |-> r.exc, status |-> 0]
    ELSE [printed |-> <<WithHEFields(Val(r))>>, exc |-> "SystemExit", status |-> 0]

\* The handler of main: the exception is printed as a failure envelope
HEHandler(t) ==
    IF Caught(t.exc) THEN
        [printed |-> Append(t.printed,
                            [success |-> FALSE, error |-> t.exc, error_type |-> t.exc]),
         status |-> 1]
    ELSE [printed |-> t.printed, status |-> t.status]

\* he_executor.main: the argument check, the try block, then the handler
HERun(i) ==
    IF i.arg = "missing" THEN
        [printed |-> <<Failure("Missing input JSON argument")>>, status |-> 1]
    ELSE HEHandler(HEPrintResult(HEResult(i)))

-----------------------------------------------------------------------------
(* The invocations *)

Big == 500000

Rows == {<<>>, <<None>>, <<Num(Rat(5, 2))>>, <<Num(R(Big))>>}

Datasets == UNION {[1..n -> Rows] : n \in 0..MaxRows}

Keywords == {"count", "sum", "avg", "min", "max", "foo", ""}

\* the aggregate's argument as the query writes it, "Age" and "age" differing
\* in letter case only
Args == {"age", "Age", "zip", "*"}

\* the column list of the dataset
ColumnLists == {<<"age">>, <<"Age">>}

Wheres == {<<>>, <<[col |-> "age", val |-> Num(R(Big))]>>}

Queries ==
    {[kw |-> "", arg |-> "", where |-> <<>>]} \cup
    [kw : Keywords \ {""}, arg : Args, where : Wheres]

NoBounds == [c \in {} |-> <<>>]

BoundsInputs ==
    {NoBounds, "age" :> <<R(10), R(100)>>, "age" :> <<R(100), R(10)>>,
     "age" :> <<R(10)>>}

Epsilons == {R(-1), R(0), Rat(1, 2)}

Deltas == {Rat(-1, 10), Rat(1, 100000)}

\* u = 0, u < 0 and u > 0 with -ln(1 - 2|u|) = MaxL or 1/4, and u = -0.5
Draws ==
    {[boundary |-> TRUE, sgn |-> -1, m |-> R(0)],
     [boundary |-> FALSE, sgn |-> 1, m |-> R(0)],
     [boundary |-> FALSE, sgn |-> 1, m |-> Rat(1, 4)],
     [boundary |-> FALSE, sgn |-> -1, m |-> R(MaxL)],
     [boundary |-> FALSE, sgn |-> 1, m |-> R(MaxL)]}

Idle == [executor |-> "", arg |-> "", query |-> [kw |-> "", arg |-> "", where |-> <<>>],
         data |-> <<>>, columns |-> <<>>, epsilon |-> R(0), delta |-> R(0),
         bounds |-> NoBounds]

\* every invocation: no argument, an argument that is no JSON, or an object
Inputs ==
    {[Idle EXCEPT !.executor = e, !.arg = a] :
        e \in {"dp", "he"}, a \in {"missing", "malformed"}} \cup
    [executor : {"dp"}, arg : {"object"}, query : Queries, data : Datasets,
     columns : ColumnLists, epsilon : Epsilons, delta : Deltas, bounds : BoundsInputs] \cup
    [executor : {"he"}, arg : {"object"}, query : Queries, data : Datasets,
     columns : ColumnLists, epsilon : {Rat(1, 2)}, delta : {Rat(1, 100000)},
     bounds : BoundsInputs]

Init ==
    /\ pc = "idle"
    /\ inv = Idle
    /\ printed = <<>>
    /\ exit = -1

Invoke ==
    /\ pc = "idle"
    /\ \E i \in Inputs : inv' = i
    /\ pc' = "running"
    /\ UNCHANGED <<printed, exit>>

DPMain ==
    /\ pc = "running"
    /\ inv.executor = "dp"
    /\ \E u1 \in Draws :
       \E u2 \in (IF inv.query.kw = "avg" THEN Draws ELSE {u1}) :
       \E r \in {DPRun(inv, u1, u2)} :
          /\ printed' = r.printed
          /\ exit' = r.status
    /\ pc' = "exited"
    /\ UNCHANGED inv

HEMain ==
    /\ pc = "running"
    /\ inv.executor = "he"
    /\ \E r \in {HERun(inv)} :
          /\ printed' = r.printed
          /\ exit' = r.status
    /\ pc' = "exited"
    /\ UNCHANGED inv

Next == Invoke \/ DPMain \/ HEMain

Spec == Init /\ [][Next]_vars

-----------------------------------------------------------------------------
(* Vocabulary of the properties *)

Exited == pc = "exited"

DPQuery(kws) == inv.executor = "dp" /\ inv.arg = "object" /\ inv.query.kw \in kws

HEQuery(kws) == inv.executor = "he" /\ inv.arg = "object" /\ inv.query.kw \in kws

\* the success envelopes printed
Successes == {k \in 1..Len(printed) : printed[k].success}

\* the cells of column idx, a row too short holding no value there
CellsOf(data, idx) ==
    [k \in 1..Len(data) |-> IF Len(data[k]) >= idx THEN data[k][idx] ELSE None]

\* the non-missing numeric values of column idx
ValuesOf(data, idx) ==
    LET Value(c) == c.v IN SeqMap(Value, SelectSeq(CellsOf(data, idx), IsNumeric))

\* the rows that satisfy every condition of the WHERE clause
FilterRows(data, columns, where) ==
    LET Matches(row) ==
            \A k \in 1..Len(where) :
                /\ InColumns(columns, where[k].col)
                /\ Len(row) >= ColumnIndex(columns, where[k].col)
                /\ row[ColumnIndex(columns, where[k].col)] = where[k].val
    IN  SelectSeq(data, Matches)

\* the caller gave the column a pair lower <= upper, or no bounds at all
BoundsUsable(bounds, column) ==
    column \in DOMAIN bounds =>
        Len(bounds[column]) = 2 /\ RLe(bounds[column][1], bounds[column][2])

\* the sum of the values, each clamped into the caller's bounds when given
TrueSumOf(values, bounds, column) ==
    LET Clamp(v) == IF column \in DOMAIN bounds
                    THEN IF RLt(v, bounds[column][1]) THEN bounds[column][1]
                         ELSE IF RLt(bounds[column][2], v) THEN bounds[column][2]
                         ELSE v
                    ELSE v
    IN  RSum(SeqMap(Clamp, values))

\* the caller's budget is valid: epsilon > 0 and delta >= 0
ValidBudget == RLt(R(0), inv.epsilon) /\ RLe(R(0), inv.delta)

-----------------------------------------------------------------------------
(* Properties *)

\* C1: every COUNT result the DP executor reports is an integer and is >= 0,
\* whatever the dataset, the epsilon and the noise draw.
C1_CountNonNegativeInteger ==
    (Exited /\ DPQuery({"count"})) =>
        \A k \in Successes :
            /\ IsInteger(printed[k].result.count)
            /\ printed[k].result.count.n >= 0

\* C1 witness: a COUNT with epsilon > 0 whose noise is below -true_count, so
\* that the floor at 0 acted.
C1_Witness ==
    /\ Exited /\ DPQuery({"count"}) /\ RLt(R(0), inv.epsilon)
    /\ Successes # {}
    /\ RLt(RAdd(printed[1].metadata.true_count, printed[1].metadata.noise_added), R(0))
    /\ printed[1].result.count = R(0)

\* C2: a successful AVG reports epsilon_consumed equal to the caller's epsilon,
\* and the two sub-budgets of epsilon_split are each half of it and add up to it.
C2_AvgBudget ==
    (Exited /\ DPQuery({"avg"})) =>
        \A k \in Successes :
            LET split == printed[k].metadata.epsilon_split IN
            /\ printed[k].epsilon_consumed = inv.epsilon
            /\ RMul(R(2), split.sum) = inv.epsilon
            /\ RMul(R(2), split.count) = inv.epsilon
            /\ RAdd(split.sum, split.count) = inv.epsilon

\* C2 witness: a successful AVG under a positive epsilon.
C2_Witness ==
    /\ Exited /\ DPQuery({"avg"}) /\ RLt(R(0), inv.epsilon)
    /\ Successes # {}
    /\ printed[1].metadata.true_count # R(0)

\* C3: the value a successful MIN or MAX returns lies within the bounds
\* [lower, upper] the envelope reports (asked here of the invocations with a
\* valid budget and lower <= upper only).
C3_ExtremeWithinBounds ==
    (Exited /\ DPQuery({"min", "max"}) /\ ValidBudget) =>
        \A k \in Successes :
            LET b == printed[k].metadata.bounds
                v == printed[k].result[inv.query.kw]
            IN  RLe(b[1], b[2]) => (RLe(b[1], v) /\ RLe(v, b[2]))

\* C4: a COUNT or SUM that succeeds under the HE executor reports
\* epsilon_consumed = 0, delta = 0 and exactly the true statistic: the number of
\* rows (of non-missing cells for COUNT(column)), the sum of the bound-clamped
\* non-missing values for SUM (asked when the bounds are absent or lower <= upper).
C4_EncryptedExact ==
    (Exited /\ HEQuery({"count", "sum"})) =>
        \A k \in Successes :
            LET column == Lower(inv.query.arg)
                idx == ColumnIndex(inv.columns, column)
            IN  /\ printed[k].epsilon_consumed = R(0)
                /\ printed[k].delta = R(0)
                /\ (inv.query.kw = "count" /\ inv.query.arg = "*") =>
                       printed[k].result.count = R(Len(inv.data))
                /\ (inv.query.kw = "count" /\ inv.query.arg # "*") =>
                       printed[k].result.count = R(Len(ValuesOf(inv.data, idx)))
                /\ (inv.query.kw = "sum" /\ BoundsUsable(inv.bounds, column)) =>
                       printed[k].result.sum
                           = TrueSumOf(ValuesOf(inv.data, idx), inv.bounds, column)

\* C5: the exit status is 0 exactly when the printed envelope has success = true.
C5_ExitStatusIffSuccess ==
    Exited =>
        (exit = 0 <=> (printed # <<>> /\ printed[Len(printed)].success))

\* C6: with a WHERE clause the true statistic is computed over the rows that
\* satisfy every condition: true_count of COUNT is the number of rows after
\* filtering, and SUM aggregates the numeric values of those rows only (asked
\* here of the DP executor under a valid budget).
C6_WhereFilters ==
    (Exited /\ DPQuery({"count", "sum"}) /\ ValidBudget /\ inv.query.where # <<>>) =>
        \A k \in Successes :
            LET rows == FilterRows(inv.data, inv.columns, inv.query.where) IN
            /\ inv.query.kw = "count" =>
                   printed[k].metadata.true_count = R(Len(rows))
            /\ inv.query.kw = "sum" =>
                   printed[k].metadata.clamped_values = R(Len(ValuesOf(rows, 1)))

\* a SUM on an existing column in which no row holds a numeric value, the
\* caller giving no bounds for it
SumOnEmptyColumn ==
    /\ inv.arg = "object" /\ inv.query.kw = "sum"
    /\ inv.data # <<>>
    /\ InColumns(inv.columns, inv.query.arg)
    /\ inv.query.arg \notin DOMAIN inv.bounds
    /\ ValuesOf(inv.data, ColumnIndex(inv.columns, inv.query.arg)) = <<>>

DPSumFault(error) ==
    \/ error = "Execution failed: ZeroDivisionError" /\ IsZero(inv.epsilon)
    \/ error = "Execution failed: IndexError" /\ ShortRow(inv.data, 1)
    \/ error = "Execution failed: ValueError: math domain error"

InvertedBounds ==
    /\ inv.query.arg \in DOMAIN inv.bounds
    /\ Len(inv.bounds[inv.query.arg]) = 2
    /\ RLt(inv.bounds[inv.query.arg][2], inv.bounds[inv.query.arg][1])

\* C8: a SUM, AVG, MIN or MAX whose caller-supplied bounds have lower > upper
\* never ends in a success envelope, and every success envelope of SUM, MIN and
\* MAX reports a sensitivity >= 0 (asked here under a valid budget).
C8_InvertedBoundsRejected ==
    (Exited /\ DPQuery({"sum", "avg", "min", "max"}) /\ ValidBudget) =>
        /\ InvertedBounds => Successes = {}
        /\ \A k \in Successes :
               inv.query.kw # "avg" => RLe(R(0), printed[k].metadata.sensitivity)

\* C9: an invocation of the DP executor with epsilon <= 0 or delta < 0 ends in
\* a failure envelope, and no success envelope reports epsilon_consumed <= 0 or
\* delta < 0.
C9_BudgetValidated ==
    (Exited /\ inv.executor = "dp" /\ inv.arg = "object") =>
        /\ ~ValidBudget => Successes = {}
        /\ \A k \in Successes :
               /\ RLt(R(0), printed[k].epsilon_consumed)
               /\ RLe(R(0), printed[k].delta)

\* C10: every invocation of either main prints exactly one envelope and exits:
\* a success envelope carrying a result, or a failure envelope carrying an error
\* and no result; a fault raised while the query is handled is reported as that
\* failure envelope with status 1, and an exit made inside the guarded block is
\* not followed by a second envelope.
C10_OneEnvelope ==
    Exited =>
        /\ Len(printed) = 1
        /\ exit \in {0, 1}
        /\ IF printed[1].success
           THEN "result" \in DOMAIN printed[1]
           ELSE "error" \in DOMAIN printed[1] /\ "result" \notin DOMAIN printed[1]

\* C10 witness: a division by zero (epsilon = 0) inside the DP executor ends as
\* the one failure envelope, with status 1.
C10_Witness ==
    /\ Exited /\ inv.executor = "dp" /\ IsZero(inv.epsilon)
    /\ printed = <<Failure("Execution failed: ZeroDivisionError")>>
    /\ exit = 1

\* the names differ at most in letter case
SameNameIgnoringCase(a, b) == Lower(a) = Lower(b)

\* the aggregate's argument names a column of the dataset up to letter case
ArgNamesColumn ==
    \E j \in 1..Len(inv.columns) : SameNameIgnoringCase(inv.columns[j], inv.query.arg)

\* C11: column lookup is case-insensitive in both executors: when the
\* aggregate's argument differs from a column name at most in letter case, no
\* executor answers with a column-not-found failure ("Column not found" of the
\* DP executor, the KeyError of the HE executor), and a successful DP SUM, MIN
\* or MAX uses the pair the caller gave under a key that differs from the
\* argument at most in letter case (asked here under a valid budget and of
\* caller pairs with lower <= upper).
C11_CaseInsensitiveLookup ==
    (Exited /\ ArgNamesColumn /\ ValidBudget
        /\ (\A c \in DOMAIN inv.bounds : BoundsUsable(inv.bounds, c))
        /\ (DPQuery({"sum", "avg", "min", "max"}) \/ HEQuery({"count", "sum"}))) =>
        \A k \in 1..Len(printed) :
            IF printed[k].success
            THEN \A c \in DOMAIN inv.bounds :
                    (/\ inv.executor = "dp" /\ inv.query.kw \in {"sum", "min", "max"}
                     /\ SameNameIgnoringCase(c, inv.query.arg)) =>
                        printed[k].metadata.bounds = inv.bounds[c]
            ELSE printed[k].error \notin {"Column not found", "KeyError"}

\* a SUM or AVG of the DP executor for whose column the caller gave bounds
ExplicitBounds ==
    /\ DPQuery({"sum", "avg"})
    /\ inv.query.arg \in DOMAIN inv.bounds

\* In a success envelope of such a query: every element of clamped_values lies
\* within [lower, upper], the list holds one element for each non-missing
\* numeric value of the column and none for the other cells, and the envelope
\* reports that number of elements and a true_sum within [n * lower, n * upper].
ClampedWithinBounds(k) ==
    LET idx == ColumnIndex(inv.columns, inv.query.arg)
        lower == inv.bounds[inv.query.arg][1]
        upper == inv.bounds[inv.query.arg][2]
        clamped_values == ClampedValues(inv.data, idx, lower, upper)
        n == Len(ValuesOf(inv.data, idx))
        md == printed[k].metadata
    IN  /\ \A j \in 1..Len(clamped_values) :
               RLe(lower, clamped_values[j]) /\ RLe(clamped_values[j], upper)
        /\ Len(clamped_values) = n
        /\ (IF inv.query.kw = "sum" THEN md.clamped_values ELSE md.true_count) = R(n)
        /\ RLe(RMul(R(n), lower), md.true_sum)
        /\ RLe(md.true_sum, RMul(R(n), upper))

\* C12: for every SUM or AVG with caller-supplied bounds [lower, upper] and
\* every dataset, each element of clamped_values satisfies
\* lower <= value <= upper, and every non-missing numeric value of the column
\* contributes exactly one element while the other cells contribute none
\* (asked here under a valid budget).
C12_ClampedWithinBounds ==
    (Exited /\ ExplicitBounds /\ ValidBudget) =>
        \A k \in Successes : ClampedWithinBounds(k)

\* C12 where the caller's pair has lower <= upper: the statement holds there.
C12_ClampedWithinOrderedBounds ==
    (Exited /\ ExplicitBounds /\ ~InvertedBounds) =>
        \A k \in Successes : ClampedWithinBounds(k)

\* C13: the Laplace sampler raises no fault for any uniform draw, the boundary
\* random.random() = 0 (u = -0.5, the logarithm's argument 0) included: no query
\* of the DP executor with a valid budget ends in a failure envelope that
\* reports the logarithm's domain error.
C13_NoiseDrawNeverFails ==
    (Exited /\ DPQuery({"count", "sum", "avg", "min", "max"}) /\ ValidBudget) =>
        \A k \in 1..Len(printed) :
            ~printed[k].success =>
                printed[k].error # "Execution failed: ValueError: math domain error"

====
